---- MODULE Spec2Model ----
(***************************************************************************)
(* plot_training.py: a straight-line script that reads train-log.csv,      *)
(* checks that the table is not empty, draws five series on four axes,     *)
(* saves training_metrics.png, prints a confirmation and shows the figure. *)
(*                                                                         *)
(* The state is the working directory (the input file, the output image,   *)
(* whether the image can be written) and one interpreter process (its      *)
(* position, the names df and fig, its standard streams, its exit status). *)
(* Optional values are sequences of length 0 or 1: <<>> is "absent" or     *)
(* "unbound", <<v>> is "present with value v".                             *)
(***************************************************************************)
EXTENDS Integers, Sequences, FiniteSets, TLC

(* Bounds of the model *)
MaxRows == 2
MaxMissing == 1

(* The distinct data rows a log may hold. *)
RowVals == {1, 2}

(***************************************************************************)
(* Literals of the script                                                  *)
(***************************************************************************)
InputPath == "train-log.csv"
OutputPath == "training_metrics.png"
MsgNotFound == "Error: train-log.csv not found. Run training first."
MsgEmpty == "Error: train-log.csv is empty."
\* The script's line starts with U+2713 and a space, left out of this ASCII string.
MsgSaved == "Saved visualization to training_metrics.png"
Dpi == 150

Columns == {"episode", "reward", "avg100", "loss", "epsilon", "steps_per_sec"}

(***************************************************************************)
(* Files the working directory may hold                                    *)
(***************************************************************************)
RowSeqs == UNION {[1..n -> RowVals] : n \in 0..MaxRows}

Headers == {h \in SUBSET Columns : Cardinality(Columns \ h) <= MaxMissing}

\* A CSV file: no content at all (zero bytes), or a header line and data rows.
CsvFiles ==
  {[header |-> <<>>, rows |-> <<>>]}
    \cup {[header |-> <<h>>, rows |-> r] : h \in Headers, r \in RowSeqs}

(***************************************************************************)
(* The statements of the script in program order.  "except" is outside the *)
(* order: it is entered only when the read raises FileNotFoundError.       *)
(***************************************************************************)
ProgramLateEmptyCheck ==
  << "read_csv", "subplots", "plot_reward", "plot_avg100", "plot_loss",
     "plot_epsilon", "plot_steps_per_sec", "tight_layout", "savefig",
     "empty_check", "print", "show" >>

ProgramPrintBeforeSave ==
  << "read_csv", "empty_check", "subplots", "plot_reward", "plot_avg100",
     "plot_loss", "plot_epsilon", "plot_steps_per_sec", "tight_layout",
     "print", "savefig", "show" >>

Program ==
  << "read_csv", "empty_check", "subplots", "plot_reward", "plot_avg100",
     "plot_loss", "plot_epsilon", "plot_steps_per_sec", "tight_layout",
     "savefig", "print", "show" >>

IndexOf(label) == CHOOSE i \in 1..Len(Program) : Program[i] = label

\* The statement after `label`, or "end" when the script falls off its end.
After(label) ==
  IF IndexOf(label) = Len(Program) THEN "end" ELSE Program[IndexOf(label) + 1]

VARIABLES
  csv,        \* train-log.csv: <<>> or <<file>>
  png,        \* training_metrics.png: <<>> or <<image>>
  writable,   \* whether training_metrics.png can be created or overwritten
  pc,         \* "idle", a statement of Program, "except", "showing", "exited"
  df,         \* the name df: <<>> or <<frame>>
  fig,        \* the current figure: <<>> or <<figure>>
  stdout,     \* lines printed by the script
  stderr,     \* exception names of the tracebacks the interpreter printed
  exitCode,   \* <<>> while running, <<n>> once exited
  trace,      \* history: statements executed in this run, in order
  writes,     \* history: paths written in this run, in order
  fsAtStart,  \* history: the two files as they were when this run started
  last        \* history: outcome of the preceding run, <<>> once the
              \* directory was changed after it

vars ==
  << csv, png, writable, pc, df, fig, stdout, stderr, exitCode, trace,
     writes, fsAtStart, last >>

fsVars == << csv, png, writable >>

(***************************************************************************)
(* Library calls, by what they do                                          *)
(***************************************************************************)
\* pd.read_csv(path): FileNotFoundError when the file does not exist,
\* EmptyDataError ("No columns to parse from file") when it has no header
\* line, otherwise a frame of the header's columns and the data rows.
read_csv(file) ==
  IF file = <<>>
  THEN [raised |-> <<"FileNotFoundError">>, frame |-> <<>>]
  ELSE IF file[1].header = <<>>
  THEN [raised |-> <<"EmptyDataError">>, frame |-> <<>>]
  ELSE [raised |-> <<>>,
        frame |-> <<[columns |-> file[1].header[1], values |-> file[1].rows]>>]

\* The except clause of the read.
CaughtEmptyData(exc) == exc = "EmptyDataError"

Caught(exc) == exc = "FileNotFoundError"

\* DataFrame.empty: any axis has length 0.
EmptyAllAxes(frame) == frame.columns = {} /\ Len(frame.values) = 0

Empty(frame) == frame.columns = {} \/ Len(frame.values) = 0

\* df[col] raises KeyError unless col is a column of the frame.
HasKeyAlways(frame, col) == TRUE

HasKey(frame, col) == col \in frame.columns

\* ax.plot(df['episode'], df[y]) on axes `ax`: the line it adds.
Line(ax, y, frame) == [ax |-> ax, x |-> "episode", y |-> y, data |-> frame.values]

\* The image savefig writes for a figure (dpi=150, bbox_inches='tight').
RenderDefaultDpi(figure) == [lines |-> figure.lines, dpi |-> 100, bbox |-> "tight"]

Render(figure) == [lines |-> figure.lines, dpi |-> Dpi, bbox |-> "tight"]

\* plt.savefig(path): PermissionError when the path cannot be written,
\* otherwise the path holds the rendering of the figure, replacing what was there.
savefigExclusive(figure, existing, canWrite) ==
  IF ~canWrite THEN [raised |-> <<"PermissionError">>, file |-> existing]
  ELSE IF existing # <<>> THEN [raised |-> <<"FileExistsError">>, file |-> existing]
  ELSE [raised |-> <<>>, file |-> <<Render(figure)>>]

savefig(figure, existing, canWrite) ==
  IF ~canWrite THEN [raised |-> <<"PermissionError">>, file |-> existing]
  ELSE [raised |-> <<>>, file |-> <<Render(figure)>>]

\* The path savefig is given.
SaveTargetInput == InputPath

SaveTarget == OutputPath

(***************************************************************************)
(* Interpreter steps                                                       *)
(***************************************************************************)
\* Control moves on from statement `label`; falling off the end exits 0.
Advance(label) ==
  IF After(label) = "end"
  THEN pc' = "exited" /\ exitCode' = <<0>>
  ELSE pc' = After(label) /\ exitCode' = exitCode

\* sys.exit(1).
Exit1 == pc' = "exited" /\ exitCode' = <<1>>

\* An exception nothing catches: traceback on stderr, exit status 1.
Uncaught(exc) ==
  /\ stderr' = Append(stderr, exc)
  /\ pc' = "exited"
  /\ exitCode' = <<1>>

Init ==
  /\ csv = <<>>
  /\ png = <<>>
  /\ writable = TRUE
  /\ pc = "idle"
  /\ df = <<>>
  /\ fig = <<>>
  /\ stdout = <<>>
  /\ stderr = <<>>
  /\ exitCode = <<>>
  /\ trace = <<>>
  /\ writes = <<>>
  /\ fsAtStart = <<>>
  /\ last = <<>>

\* python3 plot_training.py is started.
StartRun ==
  /\ pc = "idle"
  /\ pc' = Program[1]
  /\ fsAtStart' = <<[csv |-> csv, png |-> png]>>
  /\ UNCHANGED << fsVars, df, fig, stdout, stderr, exitCode, trace, writes, last >>

\* try: df = pd.read_csv('train-log.csv')
ReadCsv ==
  /\ pc = "read_csv"
  /\ trace' = Append(trace, "read_csv")
  /\ LET r == read_csv(csv) IN
       IF r.raised = <<>>
       THEN /\ df' = r.frame
            /\ Advance("read_csv")
            /\ UNCHANGED stderr
       ELSE IF Caught(r.raised[1])
       THEN /\ pc' = "except"
            /\ UNCHANGED << df, stderr, exitCode >>
       ELSE /\ Uncaught(r.raised[1])
            /\ UNCHANGED df
  /\ UNCHANGED << fsVars, fig, stdout, writes, fsAtStart, last >>

\* except FileNotFoundError: print(...); sys.exit(1)
ExceptNotFound ==
  /\ pc = "except"
  /\ trace' = Append(trace, "except")
  /\ stdout' = Append(stdout, MsgNotFound)
  /\ Exit1
  /\ UNCHANGED << fsVars, df, fig, stderr, writes, fsAtStart, last >>

\* The same handler without its sys.exit(1).
CheckEmptyNoExit ==
  /\ pc = "empty_check"
  /\ trace' = Append(trace, "empty_check")
  /\ stdout' = IF Empty(df[1]) THEN Append(stdout, MsgEmpty) ELSE stdout
  /\ Advance("empty_check")
  /\ UNCHANGED << fsVars, df, fig, stderr, writes, fsAtStart, last >>

\* if df.empty: print(...); sys.exit(1)
CheckEmpty ==
  /\ pc = "empty_check"
  /\ trace' = Append(trace, "empty_check")
  /\ IF Empty(df[1])
     THEN /\ stdout' = Append(stdout, MsgEmpty)
          /\ Exit1
     ELSE /\ Advance("empty_check")
          /\ UNCHANGED stdout
  /\ UNCHANGED << fsVars, df, fig, stderr, writes, fsAtStart, last >>

\* fig, axes = plt.subplots(2, 2, ...); fig.suptitle(...)
Subplots ==
  /\ pc = "subplots"
  /\ trace' = Append(trace, "subplots")
  /\ fig' = <<[lines |-> <<>>, tight |-> FALSE]>>
  /\ Advance("subplots")
  /\ UNCHANGED << fsVars, df, stdout, stderr, writes, fsAtStart, last >>

\* ax.plot(df['episode'], df[y], ...) on axes `ax`, then the axes' decoration.
Plot(label, ax, y) ==
  /\ pc = label
  /\ trace' = Append(trace, label)
  /\ IF HasKey(df[1], "episode") /\ HasKey(df[1], y)
     THEN /\ fig' = <<[fig[1] EXCEPT !.lines = Append(@, Line(ax, y, df[1]))]>>
          /\ Advance(label)
          /\ UNCHANGED stderr
     ELSE /\ Uncaught("KeyError")
          /\ UNCHANGED fig
  /\ UNCHANGED << fsVars, df, stdout, writes, fsAtStart, last >>

PlotReward == Plot("plot_reward", <<0, 0>>, "reward")

PlotAvg100 == Plot("plot_avg100", <<0, 0>>, "avg100")

PlotLoss == Plot("plot_loss", <<0, 1>>, "loss")

PlotEpsilon == Plot("plot_epsilon", <<1, 0>>, "epsilon")

PlotStepsPerSec == Plot("plot_steps_per_sec", <<1, 1>>, "steps_per_sec")

\* plt.tight_layout()
TightLayout ==
  /\ pc = "tight_layout"
  /\ trace' = Append(trace, "tight_layout")
  /\ fig' = <<[fig[1] EXCEPT !.tight = TRUE]>>
  /\ Advance("tight_layout")
  /\ UNCHANGED << fsVars, df, stdout, stderr, writes, fsAtStart, last >>

\* plt.savefig('training_metrics.png', dpi=150, bbox_inches='tight')
SaveFig ==
  /\ pc = "savefig"
  /\ trace' = Append(trace, "savefig")
  /\ LET r == savefig(fig[1], png, writable) IN
       IF r.raised = <<>>
       THEN /\ png' = r.file
            /\ writes' = Append(writes, SaveTarget)
            /\ Advance("savefig")
            /\ UNCHANGED stderr
       ELSE /\ Uncaught(r.raised[1])
            /\ UNCHANGED << png, writes >>
  /\ UNCHANGED << csv, writable, df, fig, stdout, fsAtStart, last >>

\* print("... Saved visualization to training_metrics.png")
PrintSaved ==
  /\ pc = "print"
  /\ trace' = Append(trace, "print")
  /\ stdout' = Append(stdout, MsgSaved)
  /\ Advance("print")
  /\ UNCHANGED << fsVars, df, fig, stderr, writes, fsAtStart, last >>

\* plt.show(): returns at once under a non-interactive backend, otherwise
\* opens the window and blocks until it is closed.
Show ==
  /\ pc = "show"
  /\ trace' = Append(trace, "show")
  /\ \E blocks \in BOOLEAN :
       IF blocks
       THEN pc' = "showing" /\ UNCHANGED exitCode
       ELSE Advance("show")
  /\ UNCHANGED << fsVars, df, fig, stdout, stderr, writes, fsAtStart, last >>

\* The figure window is closed and plt.show() returns.
CloseWindow ==
  /\ pc = "showing"
  /\ Advance("show")
  /\ UNCHANGED << fsVars, df, fig, stdout, stderr, trace, writes, fsAtStart, last >>

\* The process is gone; its outcome is what a following run is compared with.
Reap ==
  /\ pc = "exited"
  /\ last' = <<[csv |-> csv, png |-> png, stdout |-> stdout, stderr |-> stderr,
               exitCode |-> exitCode]>>
  /\ pc' = "idle"
  /\ df' = <<>>
  /\ fig' = <<>>
  /\ stdout' = <<>>
  /\ stderr' = <<>>
  /\ exitCode' = <<>>
  /\ trace' = <<>>
  /\ writes' = <<>>
  /\ fsAtStart' = <<>>
  /\ UNCHANGED fsVars

(***************************************************************************)
(* The working directory between runs                                      *)
(***************************************************************************)
procVars == << pc, df, fig, stdout, stderr, exitCode, trace, writes, fsAtStart >>

\* The trainer starts a log: a file with no content yet, or with its header line.
CreateLog ==
  /\ pc = "idle"
  /\ \E f \in {g \in CsvFiles : g.rows = <<>>} : csv' = <<f>> /\ csv' # csv
  /\ last' = <<>>
  /\ UNCHANGED << png, writable, procVars >>

\* The trainer appends the row of one more episode to a log that has its header.
AppendRow ==
  /\ pc = "idle"
  /\ csv # <<>>
  /\ csv[1].header # <<>>
  /\ Len(csv[1].rows) < MaxRows
  /\ \E v \in RowVals : csv' = <<[csv[1] EXCEPT !.rows = Append(@, v)]>>
  /\ last' = <<>>
  /\ UNCHANGED << png, writable, procVars >>

RemoveLog ==
  /\ pc = "idle"
  /\ csv # <<>>
  /\ csv' = <<>>
  /\ last' = <<>>
  /\ UNCHANGED << png, writable, procVars >>

RemoveImage ==
  /\ pc = "idle"
  /\ png # <<>>
  /\ png' = <<>>
  /\ last' = <<>>
  /\ UNCHANGED << csv, writable, procVars >>

SetWritable ==
  /\ pc = "idle"
  /\ writable' = ~writable
  /\ last' = <<>>
  /\ UNCHANGED << csv, png, procVars >>

(***************************************************************************)
(* Specifications                                                          *)
(***************************************************************************)
Step ==
  \/ ReadCsv
  \/ ExceptNotFound
  \/ CheckEmpty
  \/ Subplots
  \/ PlotReward
  \/ PlotAvg100
  \/ PlotLoss
  \/ PlotEpsilon
  \/ PlotStepsPerSec
  \/ TightLayout
  \/ SaveFig
  \/ PrintSaved
  \/ Show
  \/ CloseWindow

Environment ==
  \/ CreateLog
  \/ AppendRow
  \/ RemoveLog
  \/ RemoveImage
  \/ SetWritable

Next == StartRun \/ Step \/ Reap \/ Environment

Spec == Init /\ [][Next]_vars

\* The interpreter executes the next statement of a started run, and an open
\* figure window is eventually closed.
FairSpec == Spec /\ WF_vars(Step)

(***************************************************************************)
(* Vocabulary of the properties                                            *)
(***************************************************************************)
InRun == pc # "idle"

Exited == pc = "exited"

\* The input file of the current run, as it was when the run started.
Input == fsAtStart[1].csv

InputMissing == Input = <<>>

\* Present, with a header line and no data row.
InputHeaderOnly == Input # <<>> /\ Input[1].header # <<>> /\ Input[1].rows = <<>>

\* Present, without any content.
InputNoContent == Input # <<>> /\ Input[1].header = <<>>

\* Present, the six columns, at least one row.
InputWellFormed ==
  /\ Input # <<>>
  /\ Input[1].header = <<Columns>>
  /\ Len(Input[1].rows) >= 1

\* Present, at least one row, at least one of the six columns missing.
InputLacksColumn ==
  /\ Input # <<>>
  /\ Input[1].header # <<>>
  /\ Input[1].header[1] # Columns
  /\ Len(Input[1].rows) >= 1

Range(s) == {s[i] : i \in 1..Len(s)}

IsPrefix(s, t) == Len(s) <= Len(t) /\ \A i \in 1..Len(s) : s[i] = t[i]

Success == Exited /\ exitCode = <<0>>

\* The script's own message, then sys.exit(1): no traceback.
HandledError == Exited /\ exitCode = <<1>> /\ stderr = <<>>

UnhandledFailure == Exited /\ stderr # <<>>

OutputSteps == {"subplots", "plot_reward", "plot_avg100", "plot_loss",
                "plot_epsilon", "plot_steps_per_sec", "tight_layout",
                "savefig", "print", "show"}

\* The image a successful run on the current input leaves.
ExpectedImage ==
  [lines |-> << [ax |-> <<0, 0>>, x |-> "episode", y |-> "reward", data |-> Input[1].rows],
                [ax |-> <<0, 0>>, x |-> "episode", y |-> "avg100", data |-> Input[1].rows],
                [ax |-> <<0, 1>>, x |-> "episode", y |-> "loss", data |-> Input[1].rows],
                [ax |-> <<1, 0>>, x |-> "episode", y |-> "epsilon", data |-> Input[1].rows],
                [ax |-> <<1, 1>>, x |-> "episode", y |-> "steps_per_sec", data |-> Input[1].rows] >>,
   dpi |-> 150, bbox |-> "tight"]

(***************************************************************************)
(* C1: in every run started without train-log.csv, nothing but the read    *)
(* and its except clause is executed (no plotting, save, confirmation or   *)
(* display step), nothing is written, the output is at most the "not       *)
(* found" message, and the run ends with exactly that message printed and  *)
(* exit code 1; every such run does end.                                   *)
(***************************************************************************)
C1_MissingState ==
  (InRun /\ InputMissing) =>
    /\ Range(trace) \cap OutputSteps = {}
    /\ writes = <<>>
    /\ png = fsAtStart[1].png
    /\ stdout \in {<<>>, <<MsgNotFound>>}
    /\ Exited => (stdout = <<MsgNotFound>> /\ exitCode = <<1>> /\ stderr = <<>>)

C1_MissingInput ==
  /\ []C1_MissingState
  /\ (InRun /\ InputMissing) ~> (Exited /\ stdout = <<MsgNotFound>> /\ exitCode = <<1>>)

C1_Witness ==
  /\ Exited
  /\ InputMissing
  /\ trace = <<"read_csv", "except">>
  /\ stdout = <<MsgNotFound>>

(***************************************************************************)
(* C2: in every run whose train-log.csv holds a header line and no data    *)
(* row, the save step is never executed and no image is written, and the   *)
(* run ends with exactly the "empty" message printed and exit code 1;      *)
(* every such run does end.                                                *)
(***************************************************************************)
C2_HeaderOnlyState ==
  (InRun /\ InputHeaderOnly) =>
    /\ Range(trace) \cap OutputSteps = {}
    /\ writes = <<>>
    /\ png = fsAtStart[1].png
    /\ stdout \in {<<>>, <<MsgEmpty>>}
    /\ Exited => (stdout = <<MsgEmpty>> /\ exitCode = <<1>> /\ stderr = <<>>)

C2_HeaderOnly ==
  /\ []C2_HeaderOnlyState
  /\ (InRun /\ InputHeaderOnly) ~> (Exited /\ stdout = <<MsgEmpty>> /\ exitCode = <<1>>)

C2_Witness ==
  /\ Exited
  /\ InputHeaderOnly
  /\ trace = <<"read_csv", "empty_check">>
  /\ stdout = <<MsgEmpty>>

C3_SuccessState ==
  /\ (InRun /\ InputWellFormed) => (MsgNotFound \notin Range(stdout) /\ MsgEmpty \notin Range(stdout))
  /\ (Exited /\ InputWellFormed /\ writable) =>
       /\ exitCode = <<0>>
       /\ stderr = <<>>
       /\ writes = <<OutputPath>>
       /\ png = <<ExpectedImage>>
       /\ stdout = <<MsgSaved>>
  /\ (Exited /\ InputWellFormed /\ ~writable) =>
       /\ exitCode = <<1>>
       /\ stderr = <<"PermissionError">>
       /\ writes = <<>>
       /\ png = fsAtStart[1].png
       /\ stdout = <<>>

C4_BothHandled ==
  /\ MsgNotFound # MsgEmpty
  /\ (Exited /\ InputMissing) => (HandledError /\ stdout = <<MsgNotFound>>)
  /\ (Exited /\ (InputHeaderOnly \/ InputNoContent)) => (HandledError /\ stdout = <<MsgEmpty>>)

(***************************************************************************)
(* C5: in every run the only path written is training_metrics.png, at most *)
(* once, and exactly once when the run succeeded; no statement of the      *)
(* script changes train-log.csv, and once df is bound no statement changes *)
(* the table it holds.                                                     *)
(***************************************************************************)
C5_WritesState ==
  /\ writes \in {<<>>, <<OutputPath>>}
  /\ Success => writes = <<OutputPath>>
  /\ InRun => csv = Input

C5_StepFrame ==
  Step => /\ csv' = csv
          /\ (df # <<>> => df' = df)
          /\ (png' # png => writes' = Append(writes, OutputPath))

C5_OnlyOutputWritten == []C5_WritesState /\ [][C5_StepFrame]_vars

C5_Witness ==
  /\ Success
  /\ writes = <<OutputPath>>
  /\ png # fsAtStart[1].png
  /\ csv = Input
  /\ df = <<[columns |-> Columns, values |-> Input[1].rows]>>

(***************************************************************************)
(* C6: a run that ended in success printed exactly the confirmation line,  *)
(* a run that ended in a handled error printed exactly one of the two      *)
(* error lines, a finished run whose output holds the confirmation ended   *)
(* in success and one whose output holds an error line ended in a handled  *)
(* error, and at no point does the output hold both a confirmation and an  *)
(* error line.                                                             *)
(***************************************************************************)
C6_OneLine ==
  /\ Success => stdout = <<MsgSaved>>
  /\ HandledError => stdout \in {<<MsgNotFound>>, <<MsgEmpty>>}
  /\ (Exited /\ MsgSaved \in Range(stdout)) => Success
  /\ (Exited /\ Range(stdout) \cap {MsgNotFound, MsgEmpty} # {}) => HandledError
  /\ ~(MsgSaved \in Range(stdout) /\ Range(stdout) \cap {MsgNotFound, MsgEmpty} # {})
  /\ Len(stdout) <= 1

C6_Witness ==
  /\ HandledError
  /\ stdout = <<MsgEmpty>>
  /\ Input[1].header = <<Columns>>
  /\ png # <<>>

StepOrder ==
  << "read_csv", "empty_check", "subplots", "plot_reward", "plot_avg100",
     "plot_loss", "plot_epsilon", "plot_steps_per_sec", "tight_layout",
     "savefig", "print", "show" >>

C8_FixedOrder ==
  /\ IsPrefix(trace, StepOrder) \/ trace = <<"read_csv", "except">>
  /\ MsgSaved \in Range(stdout) => (writes = <<OutputPath>> /\ "savefig" \in Range(trace))
  /\ "show" \in Range(trace) => (writes = <<OutputPath>> /\ stdout = <<MsgSaved>>)
  /\ pc \in {"show", "showing"} => (writes = <<OutputPath>> /\ stdout = <<MsgSaved>>)
  /\ ("savefig" \in Range(trace) /\ writes = <<>>) =>
       (Exited /\ MsgSaved \notin Range(stdout) /\ "print" \notin Range(trace))

C8_Witness ==
  /\ Success
  /\ trace = StepOrder
  /\ writes = <<OutputPath>>
  /\ stdout = <<MsgSaved>>

(***************************************************************************)
(* C9: a run whose input has at least one row and lacks one of the six     *)
(* columns never reaches the save step and prints nothing, and it ends in  *)
(* an unhandled KeyError: a traceback, neither error message, no           *)
(* confirmation, nothing written; in any run the save step is reached only *)
(* with all five series plotted.                                           *)
(***************************************************************************)
C9_MissingColumn ==
  /\ (InRun /\ InputLacksColumn) =>
       /\ "savefig" \notin Range(trace)
       /\ pc # "savefig"
       /\ stdout = <<>>
       /\ writes = <<>>
       /\ png = fsAtStart[1].png
       /\ Exited => (stderr = <<"KeyError">> /\ exitCode = <<1>>)
  /\ (pc = "savefig" \/ "savefig" \in Range(trace)) =>
       {l.y : l \in Range(fig[1].lines)} = Columns \ {"episode"}

C9_Witness ==
  /\ Exited
  /\ InputLacksColumn
  /\ "steps_per_sec" \notin Input[1].header[1]
  /\ stderr = <<"KeyError">>
  /\ Len(fig[1].lines) = 4

(***************************************************************************)
(* C10: a run that ended in a handled error (input missing, or input with  *)
(* zero rows) wrote nothing: train-log.csv and training_metrics.png are as *)
(* they were when it started, so an image left by an earlier run is still  *)
(* there, unchanged.                                                       *)
(***************************************************************************)
C10_ErrorLeavesFiles ==
  /\ HandledError =>
       /\ png = fsAtStart[1].png
       /\ csv = fsAtStart[1].csv
       /\ writes = <<>>
  /\ (InRun /\ (InputMissing \/ Input[1].rows = <<>>)) =>
       (png = fsAtStart[1].png /\ writes = <<>>)

C10_Witness ==
  /\ HandledError
  /\ InputHeaderOnly
  /\ png # <<>>
  /\ png[1].lines[1].data # <<>>
  /\ png = fsAtStart[1].png

====
